---- MODULE Spec2Model ----
(***************************************************************************)
(* Consensus fingerprinting pipeline of article_fingerprinter:             *)
(* three-layer quirks normalization (quirks.py), supermajority sentence    *)
(* voting (supermajority.py) and the fingerprint builder                   *)
(* (fingerprinter.py).                                                     *)
(*                                                                         *)
(* A text is a sequence of characters.  A character is a one-character     *)
(* string; code points outside ASCII carry a name ("NBSP", "ZWSP",         *)
(* "LDQUO", "RDQUO", "LSQUO", "RSQUO", "EMDASH", "ENDASH", "EACUTE").      *)
(* Python's None is the one-element sequence None, which is no text.       *)
(***************************************************************************)
EXTENDS Integers, Sequences, FiniteSets, TLC

VARIABLES
  pc,               \* "ready": the arguments of the call are chosen; "done": it has returned
  text_arg,         \* argument text of base_quirks and process_all_layers
  extractor_arg,    \* argument extractor of process_all_layers
  url,              \* argument url of process_all_layers and fingerprint
  texts,            \* argument texts of extract: the dict as a sequence of [lib, text]
  min_extractors,   \* argument min_extractors of extract
  raw_extractions,  \* what extract_all returned to fingerprint: a sequence of [lib, text]
  metadata,         \* what extract_metadata returned to fingerprint
  ret,              \* what the call returned or raised
  processed,        \* fingerprint's local dict processed
  voted,            \* locals of the extract call that fingerprint made
  previous          \* the fingerprint run before this one (or NotRun)

vars == <<pc, text_arg, extractor_arg, url, texts, min_extractors,
          raw_extractions, metadata, ret, processed, voted, previous>>

----------------------------------------------------------------------------
(* Characters *)

UpperSeq ==
  <<"A", "B", "C", "D", "E", "F", "G", "H", "I", "J", "K", "L", "M",
    "N", "O", "P", "Q", "R", "S", "T", "U", "V", "W", "X", "Y", "Z">>

LowerSeq ==
  <<"a", "b", "c", "d", "e", "f", "g", "h", "i", "j", "k", "l", "m",
    "n", "o", "p", "q", "r", "s", "t", "u", "v", "w", "x", "y", "z">>

AsciiUpper == {UpperSeq[i] : i \in 1..26}

AsciiLower == {LowerSeq[i] : i \in 1..26}

AsciiLetter == AsciiUpper \cup AsciiLower

Digit == {"0", "1", "2", "3", "4", "5", "6", "7", "8", "9"}

\* str.isspace() and the regex class \s agree on these
Whitespace == {" ", "\t", "\n", "NBSP"}

\* the regex class \w on str patterns: letters of any script, digits, "_"
WordChar == AsciiLetter \cup Digit \cup {"_", "EACUTE"}

None == <<"<None>">>

ToLower(c) == IF c \in AsciiUpper THEN LowerSeq[CHOOSE i \in 1..26 : UpperSeq[i] = c] ELSE c

ToUpper(c) == IF c \in AsciiLower THEN UpperSeq[CHOOSE i \in 1..26 : LowerSeq[i] = c] ELSE c

----------------------------------------------------------------------------
(* Python str methods *)

\* the first position from p on whose character is outside set (Len(s) + 1 if none)
SkipWhile(s, p, set) ==
  CHOOSE q \in p..(Len(s) + 1) :
    /\ \A r \in p..(q - 1) : s[r] \in set
    /\ q = Len(s) + 1 \/ s[q] \notin set

\* the first position from p on whose character is in set (Len(s) + 1 if none)
SkipUntil(s, p, set) ==
  CHOOSE q \in p..(Len(s) + 1) :
    /\ \A r \in p..(q - 1) : s[r] \notin set
    /\ q = Len(s) + 1 \/ s[q] \in set

\* the last position up to p whose character is outside set (0 if none)
SkipBack(s, p, set) ==
  CHOOSE q \in 0..p :
    /\ \A r \in (q + 1)..p : s[r] \in set
    /\ q = 0 \/ s[q] \notin set

RECURSIVE SplitFrom(_, _)
SplitFrom(s, p) ==
  LET b == SkipWhile(s, p, Whitespace)
  IN  IF b > Len(s) THEN <<>>
      ELSE LET e == SkipUntil(s, b, Whitespace)
           IN  <<SubSeq(s, b, e - 1)>> \o SplitFrom(s, e)

\* s.split(): the maximal runs of non-whitespace characters
split(s) == SplitFrom(s, 1)

RECURSIVE join(_, _)
\* sep.join(parts)
join(sep, parts) ==
  IF parts = <<>> THEN <<>>
  ELSE IF Len(parts) = 1 THEN parts[1]
  ELSE parts[1] \o sep \o join(sep, Tail(parts))

\* s.strip()
strip(s) ==
  LET b == SkipWhile(s, 1, Whitespace)
  IN  IF b > Len(s) THEN <<>> ELSE SubSeq(s, b, SkipBack(s, Len(s), Whitespace))

\* s.replace(old, new) for one-character old and new
replace(s, old, new) == [i \in 1..Len(s) |-> IF s[i] = old THEN new ELSE s[i]]

\* s.replace(old, '') for a one-character old
remove(s, old) == SelectSeq(s, LAMBDA c : c # old)

\* s.startswith(prefix)
startswith(s, prefix) ==
  Len(s) >= Len(prefix) /\ SubSeq(s, 1, Len(prefix)) = prefix

\* s.endswith(suffix)
endswith(s, suffix) ==
  Len(s) >= Len(suffix) /\ SubSeq(s, Len(s) - Len(suffix) + 1, Len(s)) = suffix

\* sub in s
contains(s, sub) ==
  \E i \in 1..(Len(s) - Len(sub) + 1) : SubSeq(s, i, i + Len(sub) - 1) = sub

\* s.lower()
lower(s) == [i \in 1..Len(s) |-> ToLower(s[i])]

\* len(s.split())
word_count(s) == Len(split(s))

----------------------------------------------------------------------------
(* Python re: patterns as syntax trees, matched by backtracking.           *)
(* Ends(re, s, p) lists, in the order the matcher tries them, the          *)
(* positions where a match of re that starts at position p can end         *)
(* (position p stands before s[p]).  The first element is the match.       *)

\* a character class
Set(chars) == [kind |-> "set", chars |-> chars]

\* '.', any character but a newline
AnyChar == [kind |-> "any"]

\* '^'
Bol == [kind |-> "bol"]

\* '$'
Eol == [kind |-> "eol"]

\* '(?<=[...])'
Behind(chars) == [kind |-> "behind", chars |-> chars]

\* a literal string: one character class per position
Lit(str) == [kind |-> "lit", classes |-> [i \in 1..Len(str) |-> {str[i]}]]

\* a literal string under re.IGNORECASE
LitI(str) ==
  [kind |-> "lit", classes |-> [i \in 1..Len(str) |-> {ToLower(str[i]), ToUpper(str[i])}]]

Cat(items) == [kind |-> "cat", items |-> items]

Alt(items) == [kind |-> "alt", items |-> items]

\* 'x?'
Opt(item) == [kind |-> "opt", item |-> item]

Unbounded == -1

\* 'x{min,max}' of a one-character item x (a class or '.'), greedy or lazy
Rep(item, min, max, greedy) ==
  [kind |-> "rep", item |-> item, min |-> min, max |-> max, greedy |-> greedy]

Plus(item) == Rep(item, 1, Unbounded, TRUE)

Star(item) == Rep(item, 0, Unbounded, TRUE)

LazyStar(item) == Rep(item, 0, Unbounded, FALSE)

\* whether the one-character item matches character c
Matches1(item, c) == IF item.kind = "any" THEN c # "\n" ELSE c \in item.chars

\* the number of consecutive characters from p on that item matches
RunLength(item, s, p) ==
  CHOOSE k \in 0..(Len(s) - p + 1) :
    /\ \A j \in 0..(k - 1) : Matches1(item, s[p + j])
    /\ k = Len(s) - p + 1 \/ ~Matches1(item, s[p + k])

\* the ends of a repetition: longest first when greedy, shortest first when lazy
EndsRep(re, s, p) ==
  LET run == RunLength(re.item, s, p)
      hi  == IF re.max = Unbounded \/ run < re.max THEN run ELSE re.max
  IN  IF hi < re.min THEN <<>>
      ELSE [i \in 1..(hi - re.min + 1) |->
              IF re.greedy THEN p + hi - (i - 1) ELSE p + re.min + (i - 1)]

RECURSIVE Ends(_, _, _)
RECURSIVE EndsCat(_, _, _, _)
RECURSIVE EndsAlt(_, _, _, _)
RECURSIVE ThenCat(_, _, _, _, _, _)

Ends(re, s, p) ==
  CASE re.kind = "set" -> IF p <= Len(s) /\ s[p] \in re.chars THEN <<p + 1>> ELSE <<>>
    [] re.kind = "any" -> IF p <= Len(s) /\ s[p] # "\n" THEN <<p + 1>> ELSE <<>>
    [] re.kind = "bol" -> IF p = 1 THEN <<p>> ELSE <<>>
    [] re.kind = "eol" -> IF p = Len(s) + 1 \/ (p = Len(s) /\ s[p] = "\n")
                          THEN <<p>> ELSE <<>>
    [] re.kind = "behind" -> IF p > 1 /\ s[p - 1] \in re.chars THEN <<p>> ELSE <<>>
    [] re.kind = "lit" ->
         IF /\ p + Len(re.classes) - 1 <= Len(s)
            /\ \A i \in 1..Len(re.classes) : s[p + i - 1] \in re.classes[i]
         THEN <<p + Len(re.classes)>> ELSE <<>>
    [] re.kind = "rep" -> EndsRep(re, s, p)
    [] re.kind = "opt" -> Ends(re.item, s, p) \o <<p>>
    [] re.kind = "cat" -> EndsCat(re.items, 1, s, p)
    [] re.kind = "alt" -> EndsAlt(re.items, 1, s, p)

\* items[k..] matched from p
EndsCat(items, k, s, p) ==
  IF k > Len(items) THEN <<p>>
  ELSE LET es == Ends(items[k], s, p)
       IN  IF es = <<>> THEN <<>> ELSE ThenCat(es, 1, Len(es), items, k + 1, s)

\* for each of the ends es[lo..hi] of an item, in order, the ends of the rest
ThenCat(es, lo, hi, items, k, s) ==
  IF lo = hi THEN EndsCat(items, k, s, es[lo])
  ELSE LET mid == (lo + hi) \div 2
       IN  ThenCat(es, lo, mid, items, k, s) \o ThenCat(es, mid + 1, hi, items, k, s)

EndsAlt(items, k, s, p) ==
  IF k > Len(items) THEN <<>>
  ELSE Ends(items[k], s, p) \o EndsAlt(items, k + 1, s, p)

\* replacement templates: a literal character, or a character of the match
\* (g > 0 counts from the start of the match, g < 0 from its end)
C(c) == [g |-> 0, c |-> c]

G(g) == [g |-> g, c |-> ""]

Expand(tmpl, m) ==
  [i \in 1..Len(tmpl) |->
     IF tmpl[i].g = 0 THEN tmpl[i].c
     ELSE IF tmpl[i].g > 0 THEN m[tmpl[i].g]
     ELSE m[Len(m) + 1 + tmpl[i].g]]

\* the positions from p on where a non-empty match of re starts
MatchStarts(re, s, p) ==
  {i \in p..Len(s) : LET es == Ends(re, s, i) IN es # <<>> /\ es[1] > i}

\* the least element of a non-empty set of positions
Least(S) == CHOOSE i \in S : \A j \in S : i <= j

RECURSIVE SubFrom(_, _, _, _)
\* s from position p on, with every match replaced
SubFrom(re, tmpl, s, p) ==
  LET starts == MatchStarts(re, s, p)
  IN  IF starts = {} THEN SubSeq(s, p, Len(s))
      ELSE LET b == Least(starts)
               e == Ends(re, s, b)[1]
           IN  SubSeq(s, p, b - 1) \o Expand(tmpl, SubSeq(s, b, e - 1))
               \o SubFrom(re, tmpl, s, e)

\* re.sub(re, tmpl, s): the non-overlapping matches, leftmost first, replaced
re_sub(re, tmpl, s) == SubFrom(re, tmpl, s, 1)

RECURSIVE SplitRe(_, _, _)
\* the pieces of s from position p on
SplitRe(re, s, p) ==
  LET starts == MatchStarts(re, s, p)
  IN  IF starts = {} THEN <<SubSeq(s, p, Len(s))>>
      ELSE LET b == Least(starts)
               e == Ends(re, s, b)[1]
           IN  <<SubSeq(s, p, b - 1)>> \o SplitRe(re, s, e)

\* re.split(re, s) for a pattern without groups
re_split(re, s) == SplitRe(re, s, 1)

----------------------------------------------------------------------------
(* quirks.py *)

Punct == {".", ",", "!", "?", ";", ":"}

\* r'\s+([.,!?;:])' ; group 1 is the last character of the match
RE_space_punct == Cat(<<Plus(Set(Whitespace)), Set(Punct)>>)

\* r'([.,!?;:])([A-Za-z])'
RE_punct_letter == Cat(<<Set(Punct), Set(AsciiLetter)>>)

\* r'\.([A-Z])'
RE_dot_upper == Cat(<<Set({"."}), Set(AsciiUpper)>>)

\* base_quirks with the zero-width characters removed after the punctuation fixes
base_quirks_zero_width_late(text) ==
  IF text = <<>> THEN <<>>
  ELSE LET t1 == join(<<" ">>, split(text))
           t3 == re_sub(RE_space_punct, <<G(-1)>>, t1)
           t4 == re_sub(RE_punct_letter, <<G(1), C(" "), G(2)>>, t3)
           t2 == remove(replace(t4, "NBSP", " "), "ZWSP")
           t5 == replace(replace(t2, "LDQUO", "\""), "RDQUO", "\"")
           t6 == replace(replace(t5, "LSQUO", "'"), "RSQUO", "'")
           t7 == replace(replace(t6, "EMDASH", "-"), "ENDASH", "-")
           t8 == re_sub(RE_dot_upper, <<C("."), C(" "), G(2)>>, t7)
       IN  strip(join(<<" ">>, split(t8)))

\* base_quirks with only the opening quotation marks made ASCII
base_quirks_opening_quotes_only(text) ==
  IF text = <<>> THEN <<>>
  ELSE LET t1 == join(<<" ">>, split(text))
           t2 == remove(replace(t1, "NBSP", " "), "ZWSP")
           t3 == re_sub(RE_space_punct, <<G(-1)>>, t2)
           t4 == re_sub(RE_punct_letter, <<G(1), C(" "), G(2)>>, t3)
           t5 == replace(t4, "LDQUO", "\"")
           t6 == replace(t5, "LSQUO", "'")
           t7 == replace(replace(t6, "EMDASH", "-"), "ENDASH", "-")
           t8 == re_sub(RE_dot_upper, <<C("."), C(" "), G(2)>>, t7)
       IN  strip(join(<<" ">>, split(t8)))

base_quirks(text) ==
  IF text = <<>> THEN <<>>
  ELSE LET t1 == join(<<" ">>, split(text))
           t2 == remove(replace(t1, "NBSP", " "), "ZWSP")
           t3 == re_sub(RE_space_punct, <<G(-1)>>, t2)
           t4 == re_sub(RE_punct_letter, <<G(1), C(" "), G(2)>>, t3)
           t5 == replace(replace(t4, "LDQUO", "\""), "RDQUO", "\"")
           t6 == replace(replace(t5, "LSQUO", "'"), "RSQUO", "'")
           t7 == replace(replace(t6, "EMDASH", "-"), "ENDASH", "-")
           t8 == re_sub(RE_dot_upper, <<C("."), C(" "), G(2)>>, t7)
       IN  strip(join(<<" ">>, split(t8)))

\* the month abbreviations of the dateline pattern
Months ==
  <<<<"J", "a", "n">>, <<"F", "e", "b">>, <<"M", "a", "r">>, <<"A", "p", "r">>,
    <<"M", "a", "y">>, <<"J", "u", "n">>, <<"J", "u", "l">>, <<"A", "u", "g">>,
    <<"S", "e", "p">>, <<"O", "c", "t">>, <<"N", "o", "v">>, <<"D", "e", "c">>>>

\* the time zones that end the dateline
Zones == <<<<"E", "T">>, <<"E", "S", "T">>, <<"P", "S", "T">>, <<"C", "S", "T">>>>

\* the agencies of a photo credit
Agencies ==
  <<<<"G", "e", "t", "t", "y", " ", "I", "m", "a", "g", "e", "s">>, <<"R", "e", "u", "t", "e",
      "r", "s">>,
    <<"A", "F", "P">>, <<"A", "P">>, <<"B", "l", "o", "o", "m", "b", "e", "r", "g">>>>

\* Alt over literal strings under re.IGNORECASE
AltI(strs) == Alt([i \in 1..Len(strs) |-> LitI(strs[i])])

\* r'^(?:Jan|Feb|Mar|Apr|May|Jun|Jul|Aug|Sep|Oct|Nov|Dec)\.?\s+\d{1,2},\s+\d{4}.*?(?:ET|EST|PST|CST)\s*'
\* with re.IGNORECASE
RE_date_header ==
  Cat(<<Bol, AltI(Months), Opt(Set({"."})), Plus(Set(Whitespace)),
        Rep(Set(Digit), 1, 2, TRUE), Set({","}), Plus(Set(Whitespace)),
        Rep(Set(Digit), 4, 4, TRUE), LazyStar(AnyChar), AltI(Zones),
        Star(Set(Whitespace))>>)

\* r'"\s+'
RE_quote_space == Cat(<<Set({"\""}), Plus(Set(Whitespace))>>)

\* r'\s+"'
RE_space_quote == Cat(<<Plus(Set(Whitespace)), Set({"\""})>>)

\* r'\(.*?(?:Getty Images|Reuters|AFP|AP|Bloomberg)\)' with re.IGNORECASE
RE_photo_credit ==
  Cat(<<Set({"("}), LazyStar(AnyChar), AltI(Agencies), Set({")"})>>)

extractor_quirks(text, extractor) ==
  LET t == CASE extractor = "newspaper" -> re_sub(RE_date_header, <<>>, text)
             [] extractor = "readability" ->
                  re_sub(RE_space_quote, <<C("\"")>>,
                         re_sub(RE_quote_space, <<C("\"")>>, text))
             [] extractor = "goose" -> re_sub(RE_photo_credit, <<>>, text)
             [] OTHER -> text
  IN  strip(t)

\* r'^NEW You can now listen to Fox News articles!?\s*' with re.IGNORECASE
RE_fox_listen ==
  Cat(<<Bol,
        LitI(<<"N", "E", "W", " ", "Y", "o", "u", " ", "c", "a", "n", " ", "n", "o", "w", " ",
               "l", "i", "s", "t", "e", "n", " ", "t", "o", " ", "F", "o", "x", " ", "N", "e", "w", "s", " ", "a", "r", "t", "i", "c", "l", "e", "s">>),
        Opt(Set({"!"})), Star(Set(Whitespace))>>)

\* r'CLICK HERE TO (?:GET|DOWNLOAD) (?:THE )?FOX NEWS APP\s*' with re.IGNORECASE
RE_fox_app ==
  Cat(<<LitI(<<"C", "L", "I", "C", "K", " ", "H", "E", "R", "E", " ", "T", "O", " ">>),
        AltI(<<<<"G", "E", "T">>, <<"D", "O", "W", "N", "L", "O", "A", "D">>>>),
        Set({" "}), Opt(LitI(<<"T", "H", "E", " ">>)),
        LitI(<<"F", "O", "X", " ", "N", "E", "W", "S", " ", "A", "P", "P">>),
               Star(Set(Whitespace))>>)

\* r"Fox News['\s]+[\w\s]+contributed to this report\.?\s*$" with re.IGNORECASE
RE_fox_contributed ==
  Cat(<<LitI(<<"F", "o", "x", " ", "N", "e", "w", "s">>), Plus(Set({"'"} \cup Whitespace)),
        Plus(Set(WordChar \cup Whitespace)),
        LitI(<<"c", "o", "n", "t", "r", "i", "b", "u", "t", "e", "d", " ", "t", "o", " ", "t",
               "h", "i", "s", " ", "r", "e", "p", "o", "r", "t">>),
        Opt(Set({"."})), Star(Set(Whitespace)), Eol>>)

\* r'[\w\s]+ is a (?:reporter|correspondent|anchor) with Fox News Digital.*?$' with re.IGNORECASE
RE_fox_bio ==
  Cat(<<Plus(Set(WordChar \cup Whitespace)), LitI(<<" ", "i", "s", " ", "a", " ">>),
        AltI(<<<<"r", "e", "p", "o", "r", "t", "e", "r">>,
               <<"c", "o", "r", "r", "e", "s", "p", "o", "n", "d", "e", "n", "t">>,
               <<"a", "n", "c", "h", "o", "r">>>>),
        LitI(<<" ", "w", "i", "t", "h", " ", "F", "o", "x", " ", "N", "e", "w", "s", " ", "D",
               "i", "g", "i", "t", "a", "l">>),
        LazyStar(AnyChar), Eol>>)

\* r'Send tips to [\w.@]+,?\s*or on (?:X|Twitter):\s*@[\w_]+\.?\s*$' with re.IGNORECASE
RE_fox_tips ==
  Cat(<<LitI(<<"S", "e", "n", "d", " ", "t", "i", "p", "s", " ", "t", "o", " ">>),
        Plus(Set(WordChar \cup {".", "@"})), Opt(Set({","})), Star(Set(Whitespace)),
        LitI(<<"o", "r", " ", "o", "n", " ">>),
        AltI(<<<<"X">>, <<"T", "w", "i", "t", "t", "e", "r">>>>), Set({":"}),
        Star(Set(Whitespace)), Set({"@"}), Plus(Set(WordChar \cup {"_"})),
        Opt(Set({"."})), Star(Set(Whitespace)), Eol>>)

STR_foxnews_com == <<"f", "o", "x", "n", "e", "w", "s", ".", "c", "o", "m">>

STR_cnn_com == <<"c", "n", "n", ".", "c", "o", "m">>

STR_live_news == <<"l", "i", "v", "e", "-", "n", "e", "w", "s">>

STR_live_updates == <<"l", "i", "v", "e", "-", "u", "p", "d", "a", "t", "e", "s">>

STR_ERROR == <<"E", "R", "R", "O", "R", ":">>

\* text.strip() if text else text
StripIfText(text) == IF text # <<>> THEN strip(text) ELSE text

\* the five substitutions of the Fox News branch
FoxQuirks(text) ==
  re_sub(RE_fox_tips, <<>>,
    re_sub(RE_fox_bio, <<>>,
      re_sub(RE_fox_contributed, <<>>,
        re_sub(RE_fox_app, <<>>,
          re_sub(RE_fox_listen, <<>>, text)))))

\* site_quirks once domain = url.lower() is known
SiteQuirksOf(text, u, domain) ==
  IF contains(domain, STR_foxnews_com)
  THEN StripIfText(FoxQuirks(text))
  ELSE IF contains(domain, STR_cnn_com)
          /\ (contains(u, STR_live_news) \/ contains(u, STR_live_updates))
  THEN None
  ELSE StripIfText(text)

site_quirks(text, u) == SiteQuirksOf(text, u, lower(u))

\* Unavailable without the test for the error marker
Unavailable_empty_only(text) == text = <<>>

\* not text or text.startswith("ERROR:")
Unavailable(text) == text = <<>> \/ startswith(text, STR_ERROR)

process_all_layers(text, extractor, u) ==
  IF Unavailable(text)
  THEN None
  ELSE site_quirks(extractor_quirks(base_quirks(text), extractor), u)

----------------------------------------------------------------------------
(* supermajority.py *)

\* Python exceptions: the call returns nothing
Raised(exc) == [raised |-> exc]

HasRaised(r) == "raised" \in DOMAIN r

\* r'(?<=[.!?])\s+'
RE_sentence_end == Cat(<<Behind({".", "!", "?"}), Plus(Set(Whitespace))>>)

\* a segment is kept when len(s.strip()) > MinSentenceLen
MinSentenceLen == 20

extract_sentences(text) ==
  LET sentences == re_split(RE_sentence_end, text)
      stripped  == [i \in 1..Len(sentences) |-> strip(sentences[i])]
  IN  SelectSeq(stripped, LAMBDA s : Len(s) > MinSentenceLen)

\* a dict in insertion order is a sequence of [lib, text] with distinct libs
keys(d) == [i \in 1..Len(d) |-> d[i].lib]

\* the (lib, normalized) pairs the vote-counting loop visits for one dict item
VotesOfItem(item) ==
  IF item.text = <<>> \/ startswith(item.text, STR_ERROR) THEN <<>>
  ELSE LET sentences == extract_sentences(item.text)
       IN  [i \in 1..Len(sentences) |->
              [lib |-> item.lib, normalized |-> join(<<" ">>, split(sentences[i]))]]

RECURSIVE VotesFrom(_, _)
\* the pairs the loop visits, in order, for the dict items from k on
VotesFrom(d, k) ==
  IF k > Len(d) THEN <<>> ELSE VotesOfItem(d[k]) \o VotesFrom(d, k + 1)

\* AddVote that records a vote for a new sentence only
AddVote_first_only(extractors, lib) == IF extractors = {} THEN {lib} ELSE extractors

\* sentence_to_extractors[normalized].add(lib)
AddVote(extractors, lib) == extractors \cup {lib}

\* whether the ordered dict s2e has the key
HasKey(s2e, sentence) == \E k \in 1..Len(s2e) : s2e[k].sentence = sentence

\* s2e[sentence]
Lookup(s2e, sentence) ==
  s2e[CHOOSE k \in 1..Len(s2e) : s2e[k].sentence = sentence].extractors

RECURSIVE CountVotes(_, _, _, _)
\* the body of the vote-counting loop for votes[i..]; acc holds
\* sentence_to_extractors (ordered dict) and sentence_order
CountVotes(votes, i, first_lib, acc) ==
  IF i > Len(votes) THEN acc
  ELSE LET v     == votes[i]
           fresh == ~HasKey(acc.sentence_to_extractors, v.normalized)
           s2e1  == IF fresh
                    THEN Append(acc.sentence_to_extractors,
                                [sentence |-> v.normalized, extractors |-> {}])
                    ELSE acc.sentence_to_extractors
           order == IF fresh /\ v.lib = first_lib
                    THEN Append(acc.sentence_order, v.normalized)
                    ELSE acc.sentence_order
           s2e2  == [k \in 1..Len(s2e1) |->
                       IF s2e1[k].sentence = v.normalized
                       THEN [s2e1[k] EXCEPT !.extractors = AddVote(@, v.lib)]
                       ELSE s2e1[k]]
       IN  CountVotes(votes, i + 1, first_lib,
                      [sentence_to_extractors |-> s2e2, sentence_order |-> order])

\* MeetsThreshold that lets a sentence pass one vote short
MeetsThreshold_one_short(vote_count, threshold) == vote_count >= threshold - 1

\* vote_count >= min_extractors
MeetsThreshold(vote_count, threshold) == vote_count >= threshold

\* the keys the literal by_vote_count dict is created with
VoteCountKeys == {4, 3, 2, 1}

\* a by_vote_count entry shows at most PreviewLen characters of a sentence
PreviewLen == 80

Ellipsis == <<".", ".", ".">>

Preview(sentence) ==
  IF Len(sentence) > PreviewLen THEN SubSeq(sentence, 1, PreviewLen) \o Ellipsis
  ELSE sentence

RECURSIVE CollectByVoteCount(_, _, _, _, _)
\* the loop over sentence_order from i on; acc holds high_confidence,
\* by_vote_count and the exception raised, if any
CollectByVoteCount(order, i, s2e, threshold, acc) ==
  IF i > Len(order) \/ acc.raised # "" THEN acc
  ELSE LET sentence   == order[i]
           vote_count == Cardinality(Lookup(s2e, sentence))
           high       == IF MeetsThreshold(vote_count, threshold)
                         THEN Append(acc.high_confidence, sentence)
                         ELSE acc.high_confidence
       IN  IF vote_count \notin VoteCountKeys
           THEN [acc EXCEPT !.high_confidence = high, !.raised = "KeyError"]
           ELSE CollectByVoteCount(order, i + 1, s2e, threshold,
                  [acc EXCEPT !.high_confidence = high,
                              !.by_vote_count[vote_count] = Append(@, Preview(sentence))])

\* OthersMeetThreshold with equality for the comparison
OthersMeetThreshold_exactly(vote_count, threshold) == vote_count = threshold

\* len(extractors) >= min_extractors, for the sentences not in the reference
OthersMeetThreshold(vote_count, threshold) == vote_count >= threshold

\* whether the list holds the sentence
InList(list, sentence) == \E k \in 1..Len(list) : list[k] = sentence

RECURSIVE AddOthers_in_front(_, _, _, _)
\* AddOthers that puts the other sentences before the reference-ordered ones
AddOthers_in_front(s2e, k, threshold, high_confidence) ==
  IF k > Len(s2e) THEN high_confidence
  ELSE AddOthers_in_front(s2e, k + 1, threshold,
         IF OthersMeetThreshold(Cardinality(s2e[k].extractors), threshold)
            /\ ~InList(high_confidence, s2e[k].sentence)
         THEN <<s2e[k].sentence>> \o high_confidence
         ELSE high_confidence)

RECURSIVE AddOthers(_, _, _, _)
\* the loop over sentence_to_extractors.items() from k on
AddOthers(s2e, k, threshold, high_confidence) ==
  IF k > Len(s2e) THEN high_confidence
  ELSE AddOthers(s2e, k + 1, threshold,
         IF OthersMeetThreshold(Cardinality(s2e[k].extractors), threshold)
            /\ ~InList(high_confidence, s2e[k].sentence)
         THEN Append(high_confidence, s2e[k].sentence)
         ELSE high_confidence)

\* the reconstructed text of the kept sentences
Reconstruct(high_confidence) ==
  LET joined == join(<<".", " ">>, high_confidence)
  IN  IF joined # <<>> /\ ~endswith(joined, <<".">>) THEN joined \o <<".">> ELSE joined

\* the tuple returned, with the locals the tally is read from
ExtractReturn(counted, collected, high_confidence, threshold) ==
  [reconstructed |-> Reconstruct(high_confidence),
   stats |-> [total_unique_sentences |-> Len(counted.sentence_to_extractors),
              by_vote_count |-> collected.by_vote_count,
              sentences_kept |-> Len(high_confidence),
              threshold |-> threshold],
   sentence_to_extractors |-> counted.sentence_to_extractors,
   sentence_order |-> counted.sentence_order,
   high_confidence |-> high_confidence]

\* extract from the end of the loop over sentence_order on
ExtractCollected(counted, collected, threshold) ==
  IF collected.raised # ""
  THEN Raised(collected.raised)
  ELSE ExtractReturn(counted, collected,
         AddOthers(counted.sentence_to_extractors, 1, threshold, collected.high_confidence),
         threshold)

\* extract from the end of the vote-counting loop on
ExtractCounted(counted, threshold) ==
  ExtractCollected(counted,
    CollectByVoteCount(counted.sentence_order, 1, counted.sentence_to_extractors, threshold,
      [high_confidence |-> <<>>,
       by_vote_count |-> [n \in VoteCountKeys |-> <<>>],
       raised |-> ""]),
    threshold)

\* SupermajorityExtractor.extract: what it returns or raises
extract(d, threshold) ==
  IF d = <<>>
  THEN Raised("IndexError")
  ELSE ExtractCounted(
         CountVotes(VotesFrom(d, 1), 1, keys(d)[1],
                    [sentence_to_extractors |-> <<>>, sentence_order |-> <<>>]),
         threshold)

----------------------------------------------------------------------------
(* difflib.SequenceMatcher(None, a, b).ratio(), for texts shorter than 200  *)
(* characters: no junk, and the popular-element heuristic is off.          *)
(* Windows are inclusive ranges alo..ahi of a and blo..bhi of b.           *)

\* the length of the block of equal characters that starts at a[i], b[j]
BlockLen(a, b, i, j, ahi, bhi) ==
  LET most == IF ahi - i < bhi - j THEN ahi - i + 1 ELSE bhi - j + 1
  IN  CHOOSE k \in 0..most :
        /\ \A t \in 0..(k - 1) : a[i + t] = b[j + t]
        /\ k = most \/ a[i + k] # b[j + k]

\* the longest block in the window; of those the one starting earliest
\* in a, and of those the one starting earliest in b
find_longest_match(a, b, alo, ahi, blo, bhi) ==
  LET starts == {c \in (alo..ahi) \X (blo..bhi) :
                   /\ a[c[1]] = b[c[2]]
                   /\ c[1] = alo \/ c[2] = blo \/ a[c[1] - 1] # b[c[2] - 1]}
      blocks == {[i |-> c[1], j |-> c[2], size |-> BlockLen(a, b, c[1], c[2], ahi, bhi)] :
                   c \in starts}
  IN  IF blocks = {} THEN [i |-> alo, j |-> blo, size |-> 0]
      ELSE CHOOSE m \in blocks : \A o \in blocks :
             \/ m.size > o.size
             \/ m.size = o.size /\ m.i < o.i
             \/ m.size = o.size /\ m.i = o.i /\ m.j <= o.j

RECURSIVE MatchingTotal(_, _, _, _, _, _)
\* the sum of the sizes of get_matching_blocks() in the window
MatchingTotal(a, b, alo, ahi, blo, bhi) ==
  IF alo > ahi \/ blo > bhi THEN 0
  ELSE LET m == find_longest_match(a, b, alo, ahi, blo, bhi)
       IN  IF m.size = 0 THEN 0
           ELSE m.size
                + MatchingTotal(a, b, alo, m.i - 1, blo, m.j - 1)
                + MatchingTotal(a, b, m.i + m.size, ahi, m.j + m.size, bhi)

(* Python floats (IEEE 754 binary64) of the similarity computation. A float *)
(* of [0, 8) is held exactly as Digits digits of base Base, the integer     *)
(* digit first: its value is the sum of f[i] * Base^(1 - i). Every          *)
(* operation rounds its exact result to MantissaBits significant bits, ties *)
(* to even, as the hardware does. Bits are numbered from 0, the lowest bit  *)
(* of the last digit.                                                       *)

Base == 2097152

DigitBits == 21

Digits == 5

MantissaBits == 53

\* the powers of two up to Base
Powers ==
  <<1, 2, 4, 8, 16, 32, 64, 128, 256, 512, 1024, 2048, 4096, 8192, 16384, 32768, 65536,
    131072, 262144, 524288, 1048576, 2097152>>

Pow2(k) == Powers[k + 1]

\* the number of the lowest bit of digit i
LowBit(i) == DigitBits * (Digits - i)

Bit(f, k) == (f[Digits - (k \div DigitBits)] \div Pow2(k % DigitBits)) % 2

TopDigit(f) == CHOOSE i \in 1..Digits : f[i] # 0 /\ \A j \in 1..(i - 1) : f[j] = 0

\* the number of the highest bit that is set, -1 for zero
TopBit(f) ==
  IF \A i \in 1..Digits : f[i] = 0 THEN -1
  ELSE LowBit(TopDigit(f))
       + (CHOOSE k \in 0..(DigitBits - 1) :
            Pow2(k) <= f[TopDigit(f)] /\ f[TopDigit(f)] < Pow2(k + 1))

\* no bit below bit k is set
ZeroBelow(f, k) ==
  \A i \in 1..Digits :
    \/ LowBit(i) >= k
    \/ IF LowBit(i) + DigitBits <= k THEN f[i] = 0 ELSE f[i] % Pow2(k - LowBit(i)) = 0

\* f with the bits below bit d cleared
Truncated(f, d) ==
  [i \in 1..Digits |->
     IF LowBit(i) >= d THEN f[i]
     ELSE IF LowBit(i) + DigitBits <= d THEN 0
     ELSE f[i] - (f[i] % Pow2(d - LowBit(i)))]

\* the number whose only set bit is bit d
Unit(d) ==
  [i \in 1..Digits |->
     IF LowBit(i) <= d /\ d < LowBit(i) + DigitBits THEN Pow2(d - LowBit(i)) ELSE 0]

RECURSIVE Carry(_, _, _)
Carry(x, y, i) == IF i > Digits THEN 0 ELSE (x[i] + y[i] + Carry(x, y, i + 1)) \div Base

\* x + y without rounding
ExactSum(x, y) == [i \in 1..Digits |-> (x[i] + y[i] + Carry(x, y, i + 1)) % Base]

\* f, the bits below bit d dropped, rounded to nearest, ties to even; inexact
\* says that the exact value lies above f
RoundedAt(f, d, inexact) ==
  IF d <= 0 THEN f
  ELSE IF Bit(f, d - 1) = 1 /\ (inexact \/ Bit(f, d) = 1 \/ ~ZeroBelow(f, d - 1))
       THEN ExactSum(Truncated(f, d), Unit(d))
  ELSE Truncated(f, d)

Rounded(f, inexact) == RoundedAt(f, TopBit(f) - (MantissaBits - 1), inexact)

\* x + y of two floats
FloatAdd(x, y) == CHOOSE f \in {Rounded(sum, FALSE) : sum \in {ExactSum(x, y)}} : TRUE

\* the digits after the point of r / b, r < b, and what is left after them
RECURSIVE QuotientDigits(_, _, _)
QuotientDigits(r, b, k) ==
  IF k = 0 THEN <<>>
  ELSE <<(r * Base) \div b>> \o QuotientDigits((r * Base) % b, b, k - 1)

RECURSIVE QuotientRest(_, _, _)
QuotientRest(r, b, k) == IF k = 0 THEN r ELSE QuotientRest((r * Base) % b, b, k - 1)

\* the float a / b of two ints, 0 <= a < 8 * b, b < 1024; the float of the
\* literal 0.95 is FloatOf(95, 100)
FloatOf(a, b) ==
  CHOOSE f \in {Rounded(quotient, QuotientRest(a % b, b, Digits - 1) # 0) :
                  quotient \in {<<a \div b>> \o QuotientDigits(a % b, b, Digits - 1)}} : TRUE

\* the digits i.. of f / n, with r carried in from the digits before, and
\* what is left after the last digit
RECURSIVE DigitsOver(_, _, _, _)
DigitsOver(f, n, i, r) ==
  IF i > Digits THEN <<>>
  ELSE <<(r * Base + f[i]) \div n>> \o DigitsOver(f, n, i + 1, (r * Base + f[i]) % n)

RECURSIVE RestOver(_, _, _, _)
RestOver(f, n, i, r) ==
  IF i > Digits THEN r ELSE RestOver(f, n, i + 1, (r * Base + f[i]) % n)

\* f / n of a float and an int, 0 < n < 1024
FloatOver(f, n) ==
  CHOOSE g \in {Rounded(quotient, RestOver(dividend, n, 1, 0) # 0) :
                  quotient \in {DigitsOver(dividend, n, 1, 0) : dividend \in {f}}, dividend \in {f}} : TRUE

\* x > y
FloatGt(x, y) == \E i \in 1..Digits : x[i] > y[i] /\ \A j \in 1..(i - 1) : x[j] = y[j]

\* 2.0 * matches / (len(a) + len(b)), and 1.0 when both are empty
ratio(a, b) ==
  IF Len(a) + Len(b) = 0 THEN FloatOf(1, 1)
  ELSE CHOOSE f \in {FloatOf(2 * matches, Len(a) + Len(b)) :
                       matches \in {MatchingTotal(a, b, 1, Len(a), 1, Len(b))}} : TRUE

----------------------------------------------------------------------------
(* fingerprinter.py *)

\* str.encode(): the UTF-8 bytes of the text
encode(s) == [utf8 |-> s]

\* hashlib.sha256(bytes).hexdigest(); the hash is taken to be injective
sha256_hexdigest(bytes) == [sha256 |-> bytes]

\* the first 16 hex digits of a digest, taken to be injective as well
First16(digest) == [sha256_16 |-> digest.sha256]

STR_None == <<"N", "o", "n", "e">>

\* what an f-string renders for a value that is a str or None
Format(v) == IF v = None THEN STR_None ELSE v

\* if result: processed[extractor] = result
Survivor(lib, result) ==
  IF result # None /\ result # <<>> THEN <<[lib |-> lib, text |-> result]>> ELSE <<>>

RECURSIVE ProcessFrom(_, _, _)
\* the loop that fills the dict processed, for the raw items from k on
ProcessFrom(raw, k, u) ==
  IF k > Len(raw) THEN <<>>
  ELSE Survivor(raw[k].lib, process_all_layers(raw[k].text, raw[k].lib, u))
       \o ProcessFrom(raw, k + 1, u)

\* hashes_after_quirks, in the order of processed
HashesAfterQuirks(proc) ==
  [i \in 1..Len(proc) |->
     [lib |-> proc[i].lib, hash |-> sha256_hexdigest(encode(proc[i].text))]]

\* hash_groups as the list of its values: the libs of each distinct hash,
\* in the order the hashes first appear
HashGroups(hashes) ==
  LET firsts == SelectSeq([i \in 1..Len(hashes) |-> i],
                          LAMBDA i : \A j \in 1..(i - 1) : hashes[j].hash # hashes[i].hash)
  IN  [g \in 1..Len(firsts) |->
         LET same == SelectSeq(hashes, LAMBDA h : h.hash = hashes[firsts[g]].hash)
         IN  [i \in 1..Len(same) |-> same[i].lib]]

\* the pairs (i, j), i < j, in the order of the two nested loops
PairsInOrder(n) ==
  LET all == [k \in 1..(n * n) |-> <<((k - 1) \div n) + 1, ((k - 1) % n) + 1>>]
  IN  SelectSeq(all, LAMBDA p : p[1] < p[2])

Similarities(proc) ==
  LET pairs == PairsInOrder(Len(proc))
  IN  [k \in 1..Len(pairs) |->
         LET x == proc[pairs[k][1]]
             y == proc[pairs[k][2]]
         IN  [lib1 |-> x.lib, lib2 |-> y.lib,
              similarity |-> ratio(x.text, y.text),
              wc1 |-> word_count(x.text), wc2 |-> word_count(y.text)]]

\* sum(s['similarity'] for s in similarities): the running total, from 0,
\* takes the similarities from the first to the last
RECURSIVE SumSimilarity(_, _, _)
SumSimilarity(sims, k, total) ==
  IF k > Len(sims) THEN total
  ELSE CHOOSE sum \in {SumSimilarity(sims, k + 1, next) :
                         next \in {FloatAdd(total, sims[k].similarity)}} : TRUE

\* sum(...) / len(similarities) if similarities else 0
AvgSimilarity(sims) ==
  IF Len(sims) = 0 THEN FloatOf(0, 1)
  ELSE FloatOver(SumSimilarity(sims, 1, FloatOf(0, 1)), Len(sims))

\* the float literals 0.95, 0.90 and 0.80
VeryHighAbove == FloatOf(95, 100)

HighAbove == FloatOf(90, 100)

MediumAbove == FloatOf(80, 100)

\* Confidence with thresholds that are reached rather than exceeded
Confidence_at_least(avg_similarity) ==
  IF ~FloatGt(VeryHighAbove, avg_similarity) THEN "very_high"
  ELSE IF ~FloatGt(HighAbove, avg_similarity) THEN "high"
  ELSE IF ~FloatGt(MediumAbove, avg_similarity) THEN "medium"
  ELSE "low"

\* the if/elif chain over avg_similarity: > 0.95, > 0.90, > 0.80
Confidence(avg_similarity) ==
  IF FloatGt(avg_similarity, VeryHighAbove) THEN "very_high"
  ELSE IF FloatGt(avg_similarity, HighAbove) THEN "high"
  ELSE IF FloatGt(avg_similarity, MediumAbove) THEN "medium"
  ELSE "low"

\* OptimalThreshold that asks for three votes from two survivors on
OptimalThreshold_from_two(proc) == IF Len(proc) >= 2 THEN 3 ELSE 2

\* 3 if len(processed) >= 3 else 2
OptimalThreshold(proc) == IF Len(proc) >= 3 THEN 3 ELSE 2

\* ArticleIdSource built on the request url instead of the canonical url
ArticleIdSource_request_url(md) ==
  Format(md.url) \o <<"|">> \o Format(md.publish_date) \o <<"|">> \o Format(md.title)

\* f"{canonical_url}|{publish_date}|{title}"
ArticleIdSource(md) ==
  Format(md.canonical_url) \o <<"|">> \o Format(md.publish_date) \o <<"|">> \o Format(md.title)

\* SupermajHash over the first 16 characters of the text only
SupermajHash_first16(supermaj_text) ==
  sha256_hexdigest(encode(SubSeq(supermaj_text, 1,
                                 IF Len(supermaj_text) < 16 THEN Len(supermaj_text) ELSE 16)))

\* hashlib.sha256(supermaj_text.encode()).hexdigest()
SupermajHash(supermaj_text) == sha256_hexdigest(encode(supermaj_text))

\* raw_word_count of an individual extraction
RawWordCount(raw, lib) ==
  LET hit == SelectSeq(raw, LAMBDA item : item.lib = lib)
  IN  IF hit # <<>> /\ ~startswith(hit[1].text, STR_ERROR) THEN word_count(hit[1].text) ELSE 0

\* text[:200] + '...' if len(text) > 200 else text
PreviewChars == 200

TextPreview(t) ==
  IF Len(t) > PreviewChars THEN SubSeq(t, 1, PreviewChars) \o Ellipsis ELSE t

\* the dict results
Results(raw, md, proc, hashes, outcome, supermaj_hash, similarities, avg_similarity) ==
  [fingerprint |->
     [article_id |-> First16(sha256_hexdigest(encode(ArticleIdSource(md)))),
      content_hash |-> supermaj_hash,
      extraction_method |->
        <<"supermajority_", OptimalThreshold(proc), "_of_", Len(proc), "_with_quirks">>,
      confidence |-> Confidence(avg_similarity),
      agreement_score |-> avg_similarity,
      word_count |-> word_count(outcome.reconstructed)],
   metadata |-> md,
   extraction_stats |->
     [extractors_attempted |-> Len(raw),
      extractors_successful |-> Len(proc),
      unique_hashes_after_quirks |-> Cardinality({hashes[i].hash : i \in 1..Len(hashes)}),
      hash_groups |-> HashGroups(hashes),
      supermajority_threshold |-> <<OptimalThreshold(proc), "/", Len(proc)>>],
   individual_extractions |->
     [i \in 1..Len(proc) |->
        [lib |-> proc[i].lib,
         raw_word_count |-> RawWordCount(raw, proc[i].lib),
         processed_word_count |-> word_count(proc[i].text),
         hash |-> hashes[i].hash,
         preview |-> TextPreview(proc[i].text)]],
   pairwise_similarities |-> similarities,
   voting_stats |-> outcome.stats,
   supermajority_extraction |->
     [word_count |-> word_count(outcome.reconstructed),
      hash |-> supermaj_hash,
      text |-> outcome.reconstructed]]

\* fingerprint from the consensus scores on
Scored(raw, md, proc, outcome, similarities) ==
  CHOOSE results \in {Results(raw, md, proc, HashesAfterQuirks(proc), outcome,
                               SupermajHash(outcome.reconstructed), similarities, avg_similarity) :
                         avg_similarity \in {AvgSimilarity(similarities)}} : TRUE

\* fingerprint from the supermajority extraction on: an exception of
\* extract is not caught
Extracted(raw, md, proc, outcome) ==
  [processed |-> proc,
   voted |-> outcome,
   result |-> IF HasRaised(outcome) THEN Raised(outcome.raised)
              ELSE Scored(raw, md, proc, outcome, Similarities(proc))]

\* fingerprint from the end of the quirks loop on
Processed(raw, md, proc) ==
  Extracted(raw, md, proc, extract(proc, OptimalThreshold(proc)))

\* ArticleFingerprinter.fingerprint after extract_metadata and extract_all
\* have returned md and raw: the dict processed, what extract gave, and
\* what is returned or raised.  processing_time_ms and extracted_at (wall
\* clock) are left out.
fingerprint(raw, u, md) == Processed(raw, md, ProcessFrom(raw, 1, u))

----------------------------------------------------------------------------
(* The callers.  Each specification follows one kind of call: the          *)
(* arguments are chosen (pc = "ready"), the call runs to its end           *)
(* (pc = "done").                                                          *)

Pending == [pending |-> TRUE]

NotRun == [notrun |-> TRUE]

NoMetadata == [url |-> <<>>, canonical_url |-> <<>>, publish_date |-> None, title |-> <<>>]

\* the variables a specification does not use
IdleBase == text_arg = <<>>

IdleLayers == extractor_arg = "" /\ url = <<>>

IdleVote == texts = <<>> /\ min_extractors = 0

IdleFingerprint ==
  /\ raw_extractions = <<>>
  /\ metadata = NoMetadata
  /\ processed = <<>>
  /\ voted = Pending
  /\ previous = NotRun

(* base_quirks on every text of at most MaxBaseLen characters of BaseAlphabet *)

MaxBaseLen == 4

BaseAlphabet ==
  {" ", "NBSP", "ZWSP", ".", ",", "a", "Z", "LDQUO", "RSQUO", "EMDASH", "EACUTE"}

BaseInputs == UNION {[1..n -> BaseAlphabet] : n \in 0..MaxBaseLen}

InitBase ==
  /\ pc = "ready"
  /\ text_arg \in BaseInputs
  /\ ret = Pending
  /\ IdleLayers /\ IdleVote /\ IdleFingerprint

BaseQuirks ==
  /\ pc = "ready"
  /\ ret' = base_quirks(text_arg)
  /\ pc' = "done"
  /\ UNCHANGED <<text_arg, extractor_arg, url, texts, min_extractors,
                 raw_extractions, metadata, processed, voted, previous>>

SpecBase == InitBase /\ [][BaseQuirks]_vars

(* base_quirks on texts of typographic characters *)

MaxQuoteLen == 3

QuoteAlphabet ==
  {"LDQUO", "RDQUO", "LSQUO", "RSQUO", "EMDASH", "ENDASH", "NBSP", "ZWSP",
   " ", ".", "a", "Z", "EACUTE"}

QuoteInputs == UNION {[1..n -> QuoteAlphabet] : n \in 0..MaxQuoteLen}

InitQuotes ==
  /\ pc = "ready"
  /\ text_arg \in QuoteInputs
  /\ ret = Pending
  /\ IdleLayers /\ IdleVote /\ IdleFingerprint

SpecQuotes == InitQuotes /\ [][BaseQuirks]_vars

(* process_all_layers *)

RAW_ab ==
  <<"T", "h", "e", " ", "s", "e", "n", "a", "t", "e", " ", " ", "p", "a", "s", "s", "e", "d",
     " ", "t", "h", "e", " ", "b", "i", "l", "l", " ", ".", " ", "M", "a", "r", "k", "e", "t",
     "s", " ", "r", "a", "l", "l", "i", "e", "d", " ", "o", "n", " ", "t", "h", "e", " ", "n",
     "e", "w", "s", ".">>

RAW_ac ==
  <<"T", "h", "e", " ", "s", "e", "n", "a", "t", "e", " ", "p", "a", "s", "s", "e", "d", " ",
     "t", "h", "e", " ", "b", "i", "l", "l", ".", "C", "r", "i", "t", "i", "c", "s", " ", "c",
     "a", "l", "l", "e", "d", " ", "i", "t", " ", "a", " ", "m", "i", "s", "t", "a", "k", "e",
     ".">>

RAW_error ==
  <<"E", "R", "R", "O", "R", ":", " ", "b", "o", "o", "m">>

RAW_blank ==
  <<" ">>

LT_dateline ==
  <<"F", "e", "b", ".", " ", "1", "5", ",", " ", "2", "0", "2", "6", " ", "4", ":", "0", "0",
     " ", "a", ".", "m", ".", " ", "E", "T", " ">>

LT_dated ==
  <<"F", "e", "b", ".", " ", "1", "5", ",", " ", "2", "0", "2", "6", " ", "4", ":", "0", "0",
     " ", "a", ".", "m", ".", " ", "E", "T", " ", "T", "h", "e", " ", "s", "e", "n", "a", "t",
     "e", " ", "p", "a", "s", "s", "e", "d", " ", "t", "h", "e", " ", "b", "i", "l", "l", ".">>

LT_quoted ==
  <<"H", "e", " ", "s", "a", "i", "d", " ", "LDQUO", " ", "y", "e", "s", " ", "RDQUO", " ",
     "t", "o", " ", "t", "h", "e", " ", "b", "i", "l", "l", " ", ".">>

LT_credit ==
  <<"T", "h", "e", " ", "s", "e", "n", "a", "t", "e", " ", "(", "A", "P", ")", " ", "p", "a",
     "s", "s", "e", "d", " ", "t", "h", "e", " ", "b", "i", "l", "l", ".">>

LT_fox ==
  <<"N", "E", "W", " ", "Y", "o", "u", " ", "c", "a", "n", " ", "n", "o", "w", " ", "l", "i",
     "s", "t", "e", "n", " ", "t", "o", " ", "F", "o", "x", " ", "N", "e", "w", "s", " ", "a",
     "r", "t", "i", "c", "l", "e", "s", "!", " ", "T", "h", "e", " ", "s", "e", "n", "a", "t",
     "e", " ", "p", "a", "s", "s", "e", "d", " ", "t", "h", "e", " ", "b", "i", "l", "l", ".",
     " ", "C", "L", "I", "C", "K", " ", "H", "E", "R", "E", " ", "T", "O", " ", "G", "E", "T",
     " ", "T", "H", "E", " ", "F", "O", "X", " ", "N", "E", "W", "S", " ", "A", "P", "P", " ",
     "M", "a", "r", "k", "e", "t", "s", " ", "r", "a", "l", "l", "i", "e", "d", " ", "o", "n",
     " ", "t", "h", "e", " ", "n", "e", "w", "s", ".">>

URL_plain ==
  <<"h", "t", "t", "p", "s", ":", "/", "/", "e", "x", "a", "m", "p", "l", "e", ".", "o", "r",
     "g", "/", "a">>

URL_amp ==
  <<"h", "t", "t", "p", "s", ":", "/", "/", "e", "x", "a", "m", "p", "l", "e", ".", "o", "r",
     "g", "/", "a", "m", "p", "/", "a">>

URL_cnn ==
  <<"h", "t", "t", "p", "s", ":", "/", "/", "w", "w", "w", ".", "c", "n", "n", ".", "c", "o",
     "m", "/", "p", "o", "l", "i", "t", "i", "c", "s">>

URL_cnn_live ==
  <<"h", "t", "t", "p", "s", ":", "/", "/", "w", "w", "w", ".", "c", "n", "n", ".", "c", "o",
     "m", "/", "l", "i", "v", "e", "-", "n", "e", "w", "s", "/", "x">>

URL_cnn_updates ==
  <<"h", "t", "t", "p", "s", ":", "/", "/", "e", "d", "i", "t", "i", "o", "n", ".", "C", "N",
     "N", ".", "c", "o", "m", "/", "l", "i", "v", "e", "-", "u", "p", "d", "a", "t", "e", "s">>

URL_cnn_live_fox ==
  <<"h", "t", "t", "p", "s", ":", "/", "/", "w", "w", "w", ".", "c", "n", "n", ".", "c", "o",
     "m", "/", "l", "i", "v", "e", "-", "n", "e", "w", "s", "/", "f", "o", "x", "n", "e", "w",
     "s", ".", "c", "o", "m", "-", "x">>

URL_fox ==
  <<"h", "t", "t", "p", "s", ":", "/", "/", "w", "w", "w", ".", "f", "o", "x", "n", "e", "w",
     "s", ".", "c", "o", "m", "/", "a">>

\* the names extract_all gives its extractors, in its order
Extractors == <<"newspaper", "readability", "trafilatura", "goose">>

LayerTexts ==
  {<<>>, RAW_blank, RAW_error, RAW_ab, RAW_ac,
   LT_dateline, LT_dated, LT_quoted, LT_credit, LT_fox}

LayerExtractors == {Extractors[i] : i \in 1..4} \cup {"other"}

LayerUrls ==
  {URL_plain, URL_cnn, URL_cnn_live, URL_cnn_updates, URL_cnn_live_fox, URL_fox}

InitLayers ==
  /\ pc = "ready"
  /\ text_arg \in LayerTexts
  /\ extractor_arg \in LayerExtractors
  /\ url \in LayerUrls
  /\ ret = Pending
  /\ IdleVote /\ IdleFingerprint

ProcessAllLayers ==
  /\ pc = "ready"
  /\ ret' = process_all_layers(text_arg, extractor_arg, url)
  /\ pc' = "done"
  /\ UNCHANGED <<text_arg, extractor_arg, url, texts, min_extractors,
                 raw_extractions, metadata, processed, voted, previous>>

SpecLayers == InitLayers /\ [][ProcessAllLayers]_vars

(* SupermajorityExtractor.extract on dicts of at most MaxSources texts *)

VT_ab ==
  <<"T", "h", "e", " ", "s", "e", "n", "a", "t", "e", " ", "p", "a", "s", "s", "e", "d", " ",
     "t", "h", "e", " ", "b", "i", "l", "l", ".", " ", "M", "a", "r", "k", "e", "t", "s", " ",
     "r", "a", "l", "l", "i", "e", "d", " ", "o", "n", " ", "t", "h", "e", " ", "n", "e", "w",
     "s", ".">>

VT_ac_spaced ==
  <<"T", "h", "e", " ", " ", "s", "e", "n", "a", "t", "e", " ", "p", "a", "s", "s", "e", "d",
     "\t", "t", "h", "e", " ", "b", "i", "l", "l", ".", " ", " ", "C", "r", "i", "t", "i", "c",
     "s", " ", "c", "a", "l", "l", "e", "d", " ", "i", "t", " ", "a", " ", "m", "i", "s", "t",
     "a", "k", "e", ".">>

VT_ba ==
  <<"M", "a", "r", "k", "e", "t", "s", " ", "r", "a", "l", "l", "i", "e", "d", " ", "o", "n",
     " ", "t", "h", "e", " ", "n", "e", "w", "s", ".", " ", "T", "h", "e", " ", "s", "e", "n",
     "a", "t", "e", " ", "p", "a", "s", "s", "e", "d", " ", "t", "h", "e", " ", "b", "i", "l",
     "l", ".">>

VT_aa ==
  <<"T", "h", "e", " ", "s", "e", "n", "a", "t", "e", " ", "p", "a", "s", "s", "e", "d", " ",
     "t", "h", "e", " ", "b", "i", "l", "l", ".", " ", "T", "h", "e", " ", "s", "e", "n", "a",
     "t", "e", " ", "p", "a", "s", "s", "e", "d", " ", "t", "h", "e", " ", "b", "i", "l", "l",
     ".">>

VT_error ==
  <<"E", "R", "R", "O", "R", ":", " ", "t", "i", "m", "e", "d", " ", "o", "u", "t", ".", " ",
     "T", "h", "e", " ", "s", "e", "n", "a", "t", "e", " ", "p", "a", "s", "s", "e", "d", " ",
     "t", "h", "e", " ", "b", "i", "l", "l", ".">>

\* the most sources a dict given to extract has
MaxSources == 5

\* the number of leading sources whose text ranges over all of VoteTexts
MaxVaried == 3

\* the highest threshold extract is called with
MaxThreshold == 4

VoteTexts == {<<>>, VT_ab, VT_ac_spaced, VT_ba, VT_aa, VT_error}

\* the texts of the sources after the leading ones
TailTexts == {VT_ab, VT_error}

\* the i-th key of a dict given to extract
Lib(i) == <<"ext", i>>

TextsAt(i) == IF i <= MaxVaried THEN VoteTexts ELSE TailTexts

VoteInputs ==
  UNION {{[i \in 1..n |-> [lib |-> Lib(i), text |-> f[i]]] :
            f \in {g \in [1..n -> VoteTexts] : \A i \in 1..n : g[i] \in TextsAt(i)}} :
           n \in 0..MaxSources}

InitVote ==
  /\ pc = "ready"
  /\ texts \in VoteInputs
  /\ min_extractors \in 1..MaxThreshold
  /\ ret = Pending
  /\ IdleBase /\ IdleLayers /\ IdleFingerprint

Extract ==
  /\ pc = "ready"
  /\ ret' = extract(texts, min_extractors)
  /\ pc' = "done"
  /\ UNCHANGED <<text_arg, extractor_arg, url, texts, min_extractors,
                 raw_extractions, metadata, processed, voted, previous>>

SpecVote == InitVote /\ [][Extract]_vars

(* SupermajorityExtractor.extract on sentences of differing terminal *)
(* punctuation *)

PT_period ==
  <<"M", "a", "r", "k", "e", "t", "s", " ", "r", "a", "l", "l", "i", "e", "d", " ", "o",
     "n", " ", "t", "h", "e", " ", "n", "e", "w", "s", ".">>

PT_bang ==
  <<"M", "a", "r", "k", "e", "t", "s", " ", "r", "a", "l", "l", "i", "e", "d", " ", "o",
     "n", " ", "t", "h", "e", " ", "n", "e", "w", "s", "!">>

PT_question ==
  <<"M", "a", "r", "k", "e", "t", "s", " ", "r", "a", "l", "l", "i", "e", "d", " ", "o",
     "n", " ", "t", "h", "e", " ", "n", "e", "w", "s", "?">>

PT_dots ==
  <<"M", "a", "r", "k", "e", "t", "s", " ", "r", "a", "l", "l", "i", "e", "d", " ", "o",
     "n", " ", "t", "h", "e", " ", "n", "e", "w", "s", ".", ".">>

PT_two ==
  <<"T", "h", "e", " ", "s", "e", "n", "a", "t", "e", " ", "p", "a", "s", "s", "e", "d",
     " ", "t", "h", "e", " ", "b", "i", "l", "l", ".", " ", "M", "a", "r", "k", "e", "t",
     "s", " ", "r", "a", "l", "l", "i", "e", "d", " ", "o", "n", " ", "t", "h", "e", " ",
     "n", "e", "w", "s", "!">>

MaxPunctSources == 3

MaxPunctThreshold == 2

PunctTexts == {PT_period, PT_bang, PT_question, PT_dots, PT_two}

PunctInputs ==
  UNION {{[i \in 1..n |-> [lib |-> Lib(i), text |-> f[i]]] : f \in [1..n -> PunctTexts]} :
           n \in 0..MaxPunctSources}

InitPunct ==
  /\ pc = "ready"
  /\ texts \in PunctInputs
  /\ min_extractors \in 1..MaxPunctThreshold
  /\ ret = Pending
  /\ IdleBase /\ IdleLayers /\ IdleFingerprint

SpecPunct == InitPunct /\ [][Extract]_vars

(* SupermajorityExtractor.extract_sentences on texts of segments of 19, 20 *)
(* and 21 characters *)

SEG_19 ==
  <<"M", "a", "r", "k", "e", "t", "s", " ", "r", "o", "s", "e", " ", "a", "g", "a", "i",
     "n", ".">>

SEG_20 ==
  <<"M", "a", "r", "k", "e", "t", "s", " ", "r", "a", "l", "l", "i", "e", "d", " ", "n",
     "o", "w", "!">>

SEG_21 ==
  <<"D", "i", "d", " ", "m", "a", "r", "k", "e", "t", "s", ".", "r", "i", "s", "e", " ",
     "n", "o", "w", "?">>

SEG_short ==
  <<"S", "o", " ", "i", "t", " ", "g", "o", "e", "s", ".">>

MaxSegments == 3

SegmentPool == {SEG_19, SEG_20, SEG_21, SEG_short}

Separators == {<<" ">>, <<" ", "\n", " ">>}

\* the texts of at most n segments, each followed by a separator but the last
RECURSIVE SegmentTexts(_)
SegmentTexts(n) ==
  IF n = 0 THEN {<<>>}
  ELSE SegmentTexts(n - 1)
       \cup SegmentPool
       \cup {s \o sep \o t : s \in SegmentPool, sep \in Separators,
                             t \in SegmentTexts(n - 1) \ {<<>>}}

InitSentences ==
  /\ pc = "ready"
  /\ text_arg \in SegmentTexts(MaxSegments)
  /\ ret = Pending
  /\ IdleLayers /\ IdleVote /\ IdleFingerprint

ExtractSentences ==
  /\ pc = "ready"
  /\ ret' = extract_sentences(text_arg)
  /\ pc' = "done"
  /\ UNCHANGED <<text_arg, extractor_arg, url, texts, min_extractors,
                 raw_extractions, metadata, processed, voted, previous>>

SpecSentences == InitSentences /\ [][ExtractSentences]_vars

(* ArticleFingerprinter.fingerprint *)

DATE_published ==
  <<"2", "0", "2", "6", "-", "0", "2", "-", "1", "5">>

TITLE_bill ==
  <<"S", "e", "n", "a", "t", "e", " ", "p", "a", "s", "s", "e", "s", " ", "b", "i", "l", "l">>

RawTexts == {<<>>, RAW_blank, RAW_error, RAW_ab, RAW_ac}

\* extract_all returns a text or an error marker for each of its extractors
RawDict(f) == [i \in 1..4 |-> [lib |-> Extractors[i], text |-> f[i]]]

RawInputs == {RawDict(f) : f \in [1..4 -> RawTexts]}

\* extract_metadata sets url, and canonical_url to the canonical link or to url
Metadata(u, canonical, date) ==
  [url |-> u, canonical_url |-> canonical, publish_date |-> date, title |-> TITLE_bill]

MetadataFor(u) == {Metadata(u, c, d) : c \in {u, URL_plain}, d \in {None, DATE_published}}

InitFingerprint ==
  /\ pc = "ready"
  /\ raw_extractions \in RawInputs
  /\ url \in {URL_plain, URL_cnn_live}
  /\ metadata = Metadata(url, url, None)
  /\ ret = Pending
  /\ processed = <<>>
  /\ voted = Pending
  /\ previous = NotRun
  /\ IdleBase /\ extractor_arg = "" /\ IdleVote

Fingerprint ==
  /\ pc = "ready"
  /\ \E run \in {fingerprint(raw_extractions, url, metadata)} :
       /\ ret' = run.result
       /\ processed' = run.processed
       /\ voted' = run.voted
  /\ pc' = "done"
  /\ UNCHANGED <<text_arg, extractor_arg, url, texts, min_extractors,
                 raw_extractions, metadata, previous>>

SpecFingerprint == InitFingerprint /\ [][Fingerprint]_vars

(* fingerprint runs on short texts whose pairwise ratios lie on and around *)
(* the confidence thresholds *)

ST_base ==
  <<"a", "b", "c", "d", "e", "f", "g", "h", "i", "j", "k", "l", "m", "n", "o", "p", "q",
     "r", "s", "t">>

\* ST_base with its last character, last two and last four characters changed
ST_one ==
  <<"a", "b", "c", "d", "e", "f", "g", "h", "i", "j", "k", "l", "m", "n", "o", "p", "q",
     "r", "s", "U">>

ST_two ==
  <<"a", "b", "c", "d", "e", "f", "g", "h", "i", "j", "k", "l", "m", "n", "o", "p", "q",
     "r", "V", "W">>

ST_four ==
  <<"a", "b", "c", "d", "e", "f", "g", "h", "i", "j", "k", "l", "m", "n", "o", "p", "W",
     "X", "Y", "Z">>

ScoreTexts == {ST_base, ST_one, ST_two, ST_four, RAW_error}

ScoreInputs == {RawDict(f) : f \in [1..4 -> ScoreTexts]}

InitScore ==
  /\ pc = "ready"
  /\ raw_extractions \in ScoreInputs
  /\ url = URL_plain
  /\ metadata = Metadata(url, url, None)
  /\ ret = Pending
  /\ processed = <<>>
  /\ voted = Pending
  /\ previous = NotRun
  /\ IdleBase /\ extractor_arg = "" /\ IdleVote

SpecScore == InitScore /\ [][Fingerprint]_vars

(* two fingerprint runs, one after the other *)

RunRaws ==
  {RawDict(<<RAW_ab, RAW_ab, RAW_ab, RAW_ab>>),
   RawDict(<<RAW_ab, RAW_ac, RAW_error, RAW_ab>>),
   RawDict(<<RAW_ab, RAW_ac, RAW_ac, RAW_ab>>),
   RawDict(<<RAW_ab, RAW_error, RAW_ac, RAW_blank>>),
   RawDict(<<RAW_error, RAW_blank, RAW_ab, RAW_error>>),
   RawDict(<<RAW_error, RAW_error, RAW_blank, <<>>>>)}

RunUrls == {URL_plain, URL_amp}

InitRuns ==
  /\ pc = "ready"
  /\ raw_extractions \in RunRaws
  /\ url \in RunUrls
  /\ metadata \in MetadataFor(url)
  /\ ret = Pending
  /\ processed = <<>>
  /\ voted = Pending
  /\ previous = NotRun
  /\ IdleBase /\ extractor_arg = "" /\ IdleVote

\* the caller keeps what the run gave and fingerprints another page
NextArticle ==
  /\ pc = "done"
  /\ previous' = [raw_extractions |-> raw_extractions, url |-> url, metadata |-> metadata,
                  ret |-> ret, processed |-> processed]
  /\ raw_extractions' \in RunRaws
  /\ url' \in RunUrls
  /\ metadata' \in MetadataFor(url')
  /\ ret' = Pending
  /\ processed' = <<>>
  /\ voted' = Pending
  /\ pc' = "ready"
  /\ UNCHANGED <<text_arg, extractor_arg, texts, min_extractors>>

SpecRuns == InitRuns /\ [][Fingerprint \/ NextArticle]_vars

(* two fingerprint runs on pages whose metadata the page itself supplies *)

\* canonical.get('href', url): the request url or the href of the canonical link
TripleUrls == {URL_plain, URL_plain \o <<"|">> \o DATE_published}

\* None without a date in the page, or the datePublished or the content of
\* article:published_time as the page gives it
TripleDates ==
  {None, STR_None, DATE_published, DATE_published \o <<"|">> \o DATE_published}

\* the headline, the og:title or the text of the title tag
TripleTitles == {TITLE_bill, DATE_published \o <<"|">> \o TITLE_bill, STR_None}

TripleInputs ==
  {[url |-> URL_plain, canonical_url |-> c, publish_date |-> d, title |-> t] :
     c \in TripleUrls, d \in TripleDates, t \in TripleTitles}

TripleRaws ==
  {RawDict(<<RAW_ab, RAW_ab, RAW_ab, RAW_ab>>),
   RawDict(<<RAW_ab, RAW_ac, RAW_error, RAW_ab>>)}

InitTriples ==
  /\ pc = "ready"
  /\ raw_extractions \in TripleRaws
  /\ url = URL_plain
  /\ metadata \in TripleInputs
  /\ ret = Pending
  /\ processed = <<>>
  /\ voted = Pending
  /\ previous = NotRun
  /\ IdleBase /\ extractor_arg = "" /\ IdleVote

\* the caller keeps what the run gave and fingerprints a page with other metadata
NextTriple ==
  /\ pc = "done"
  /\ previous' = [raw_extractions |-> raw_extractions, url |-> url, metadata |-> metadata,
                  ret |-> ret, processed |-> processed]
  /\ raw_extractions' \in TripleRaws
  /\ metadata' \in TripleInputs
  /\ ret' = Pending
  /\ processed' = <<>>
  /\ voted' = Pending
  /\ pc' = "ready"
  /\ UNCHANGED <<text_arg, extractor_arg, url, texts, min_extractors>>

SpecTriples == InitTriples /\ [][Fingerprint \/ NextTriple]_vars

----------------------------------------------------------------------------
(* Properties *)

Returned(r) == ~HasRaised(r)

\* the elements of a sequence
Range(seq) == {seq[i] : i \in 1..Len(seq)}

\* C1: fingerprint returns a record for every set of raw extractor outputs
\* and never raises; when no source survives normalization the record has
\* empty reconstructed text, word_count 0, agreement_score 0 and
\* confidence "low".
C1_RecordForEveryInput ==
  pc = "done" =>
    /\ Returned(ret)
    /\ processed = <<>> =>
         /\ ret.supermajority_extraction.text = <<>>
         /\ ret.fingerprint.word_count = 0
         /\ ret.fingerprint.agreement_score = FloatOf(0, 1)
         /\ ret.fingerprint.confidence = "low"

\* C2: extract called with an empty mapping returns, without raising, an
\* empty reconstructed text and stats with total_unique_sentences = 0,
\* sentences_kept = 0 and the threshold it was given.
C2_EmptyMappingReturnsEmpty ==
  pc = "done" /\ texts = <<>> =>
    /\ Returned(ret)
    /\ ret.reconstructed = <<>>
    /\ ret.stats.total_unique_sentences = 0
    /\ ret.stats.sentences_kept = 0
    /\ ret.stats.threshold = min_extractors

\* the sentences a call of extract kept (none when it raised)
Kept(r) == IF HasRaised(r) THEN {} ELSE Range(r.high_confidence)

\* C3: threshold monotonicity: for the same texts, every sentence kept at
\* threshold min_extractors + 1 is kept at threshold min_extractors, and
\* the call at the higher threshold raises exactly when the call at the
\* lower one does.
C3_ThresholdMonotone ==
  pc = "done" =>
    LET higher == extract(texts, min_extractors + 1)
    IN  /\ HasRaised(higher) <=> HasRaised(ret)
        /\ Kept(higher) \subseteq Kept(ret)

\* a call where raising the threshold by one drops some of the kept
\* sentences and keeps others
C3_Witness ==
  /\ pc = "done"
  /\ Returned(ret)
  /\ Kept(extract(texts, min_extractors + 1)) # {}
  /\ Kept(extract(texts, min_extractors + 1)) # Kept(ret)

\* the sentences a text yields after segmentation and whitespace canonicalization
Yields(t) == {join(<<" ">>, split(s)) : s \in Range(extract_sentences(t))}

\* what each source of the call yields
YieldsOfSources == [i \in 1..Len(texts) |-> Yields(texts[i].text)]

\* the sources whose text yields the sentence
YieldingSources(yields, sentence) ==
  {i \in 1..Len(texts) : sentence \in yields[i]}

\* the same, leaving out the sources the vote-counting loop passes over
VotingSources(yields, sentence) ==
  {i \in YieldingSources(yields, sentence) :
     texts[i].text # <<>> /\ ~startswith(texts[i].text, STR_ERROR)}

\* the kept sentences are pairwise distinct and no more than the tallied ones
KeptWellFormed ==
  /\ \A i, j \in 1..Len(ret.high_confidence) :
       ret.high_confidence[i] = ret.high_confidence[j] => i = j
  /\ ret.stats.sentences_kept = Len(ret.high_confidence)
  /\ ret.stats.sentences_kept <= ret.stats.total_unique_sentences

\* C4 as stated: the vote count of every tallied sentence is the number of
\* input sources whose text yields it after segmentation and whitespace
\* canonicalization; kept sentences are pairwise distinct;
\* sentences_kept <= total_unique_sentences.
C4_VotesOfAllSources ==
  pc = "done" /\ Returned(ret) =>
    /\ \E yields \in {YieldsOfSources} :
         \A k \in 1..Len(ret.sentence_to_extractors) :
           Cardinality(ret.sentence_to_extractors[k].extractors)
             = Cardinality(YieldingSources(yields, ret.sentence_to_extractors[k].sentence))
    /\ KeptWellFormed

\* C4 amended: the vote count of every tallied sentence is the number of
\* input sources, other than those whose text is empty or begins with
\* "ERROR:", whose text yields it after segmentation and whitespace
\* canonicalization (a source that repeats a sentence counts once); kept
\* sentences are pairwise distinct; sentences_kept <= total_unique_sentences.
C4_VoteCountConservation ==
  pc = "done" /\ Returned(ret) =>
    /\ \E yields \in {YieldsOfSources} :
         \A k \in 1..Len(ret.sentence_to_extractors) :
           /\ Cardinality(ret.sentence_to_extractors[k].extractors)
                = Cardinality(VotingSources(yields, ret.sentence_to_extractors[k].sentence))
           /\ ret.sentence_to_extractors[k].extractors
                = {texts[i].lib : i \in VotingSources(yields, ret.sentence_to_extractors[k].sentence)}
    /\ KeptWellFormed

\* a tally in which one source repeats a sentence, another writes it with
\* other whitespace, and a source with an error marker yields it too
C4_Witness ==
  /\ pc = "done"
  /\ Returned(ret)
  /\ \E i, j, k \in 1..Len(texts) :
       /\ texts[i].text = VT_aa
       /\ texts[j].text = VT_ac_spaced
       /\ texts[k].text = VT_error
  /\ \E k \in 1..Len(ret.sentence_to_extractors) :
       /\ Cardinality(ret.sentence_to_extractors[k].extractors) >= 2
       /\ VotingSources(YieldsOfSources, ret.sentence_to_extractors[k].sentence)
            # YieldingSources(YieldsOfSources, ret.sentence_to_extractors[k].sentence)
  /\ ret.stats.sentences_kept >= 1

\* C5: the base layer is idempotent: base_quirks applied to its own
\* result gives that result.
C5_BaseIdempotent ==
  pc = "done" => base_quirks(ret) = ret

\* a call that removed zero-width text and a space before punctuation
C5_Witness ==
  /\ pc = "done"
  /\ text_arg = <<"a", " ", "ZWSP", ".">>
  /\ ret = <<"a", ".">>

\* the raw items that are no content: an error marker, or a text that is
\* empty before or after the three layers
NoContent(item) ==
  \/ startswith(item.text, STR_ERROR)
  \/ item.text = <<>>
  \/ process_all_layers(item.text, item.lib, url) = <<>>

\* C6: a source whose raw text begins with "ERROR:" (or is empty before or
\* after the three layers) is not among the survivors, is in no pairwise
\* similarity and in no sentence's vote set; extractors_attempted counts
\* it, extractors_successful does not and is the number of survivors.
C6_ErrorSourcesExcluded ==
  pc = "done" =>
    /\ \A i \in 1..Len(raw_extractions) :
         NoContent(raw_extractions[i]) =>
           /\ raw_extractions[i].lib \notin Range(keys(processed))
           /\ Returned(voted) =>
                \A k \in 1..Len(voted.sentence_to_extractors) :
                  raw_extractions[i].lib \notin voted.sentence_to_extractors[k].extractors
           /\ Returned(ret) =>
                \A k \in 1..Len(ret.pairwise_similarities) :
                  /\ ret.pairwise_similarities[k].lib1 # raw_extractions[i].lib
                  /\ ret.pairwise_similarities[k].lib2 # raw_extractions[i].lib
    /\ Returned(ret) =>
         /\ ret.extraction_stats.extractors_attempted = Len(raw_extractions)
         /\ ret.extraction_stats.extractors_successful = Len(processed)
         /\ ret.extraction_stats.extractors_successful
              = Cardinality({i \in 1..Len(raw_extractions) : ~NoContent(raw_extractions[i])})
         /\ ret.extraction_stats.extractors_successful
              <= ret.extraction_stats.extractors_attempted

\* a run with an error marker among sources that survive and are compared
C6_Witness ==
  /\ pc = "done"
  /\ Returned(ret)
  /\ raw_extractions[2].text = RAW_error
  /\ raw_extractions[3].text = RAW_blank
  /\ ret.extraction_stats.extractors_attempted = 4
  /\ ret.extraction_stats.extractors_successful = 2
  /\ Len(ret.pairwise_similarities) = 1
  /\ ret.voting_stats.total_unique_sentences >= 1

\* the live-content suppression rule: a cnn.com URL containing
\* "live-news" or "live-updates"
MatchesLiveRule(u) ==
  /\ contains(lower(u), STR_cnn_com)
  /\ contains(u, STR_live_news) \/ contains(u, STR_live_updates)

\* C7: when the URL matches the live-content suppression rule,
\* process_all_layers returns None for every source id and every raw text.
C7_LiveContentSuppressed ==
  pc = "done" /\ MatchesLiveRule(url) => ret = None

\* the distinct canonical sentences extract tallies for a single source
TalliedOf(t) ==
  IF t = <<>> \/ startswith(t, STR_ERROR) THEN {} ELSE Yields(t)

\* C8 as stated: with exactly one source and a threshold above 1, extract
\* returns an empty reconstruction, sentences_kept = 0 and
\* total_unique_sentences equal to the number of segments the source's
\* text yields.
C8_SingleSourceSegmentCount ==
  pc = "done" /\ Len(texts) = 1 /\ min_extractors > 1 =>
    /\ Returned(ret)
    /\ ret.reconstructed = <<>>
    /\ ret.stats.sentences_kept = 0
    /\ ret.stats.total_unique_sentences = Len(extract_sentences(texts[1].text))

\* C8 amended: with exactly one source and a threshold above 1, extract
\* returns an empty reconstruction, sentences_kept = 0 and
\* total_unique_sentences equal to the number of distinct sentences the
\* source's text yields after whitespace canonicalization, and 0 when that
\* text is empty or begins with "ERROR:".
C8_SingleSourceKeepsNothing ==
  pc = "done" /\ Len(texts) = 1 /\ min_extractors > 1 =>
    /\ Returned(ret)
    /\ ret.reconstructed = <<>>
    /\ ret.stats.sentences_kept = 0
    /\ ret.stats.total_unique_sentences = Cardinality(TalliedOf(texts[1].text))

\* a single source that states one sentence twice, at threshold 3
C8_Witness ==
  /\ pc = "done"
  /\ Len(texts) = 1
  /\ texts[1].text = VT_aa
  /\ min_extractors = 3
  /\ Returned(ret)
  /\ ret.stats.total_unique_sentences = 1

\* the metadata triple the article_id is made of
Triple(md) == <<md.canonical_url, md.publish_date, md.title>>

\* both the run before and this run returned a record
BothReturned ==
  /\ pc = "done"
  /\ previous # NotRun
  /\ Returned(previous.ret)
  /\ Returned(ret)

\* this run with one field of the metadata missing
WithMissing(field) ==
  fingerprint(raw_extractions, url, [metadata EXCEPT ![field] = None]).result

\* C9: two runs with the same (canonical_url, publish_date, title) give
\* the same article_id whatever the extractor outputs, the survivors and
\* the reconstructed text are; a run raises with publish_date or title
\* missing only if it raises with them present.
C9_ArticleIdOfTripleOnly ==
  /\ BothReturned /\ Triple(previous.metadata) = Triple(metadata) =>
       ret.fingerprint.article_id = previous.ret.fingerprint.article_id
  /\ pc = "done" =>
       /\ HasRaised(WithMissing("publish_date")) <=> HasRaised(ret)
       /\ HasRaised(WithMissing("title")) <=> HasRaised(ret)

\* two runs on different request urls and different extractor outputs,
\* with the same triple and no publish_date
C9_Witness ==
  /\ BothReturned
  /\ Triple(previous.metadata) = Triple(metadata)
  /\ metadata.publish_date = None
  /\ previous.url # url
  /\ previous.raw_extractions # raw_extractions
  /\ Len(previous.processed) # Len(processed)
  /\ previous.ret.supermajority_extraction.text # ret.supermajority_extraction.text

\* C10: two runs yield the same content_hash if and only if their
\* reconstructed texts are identical, whatever the URL, the metadata, the
\* number of survivors and the agreement score are; the record's
\* content_hash is the hash reported for the supermajority extraction.
C10_ContentHashOfTextOnly ==
  /\ BothReturned =>
       (ret.fingerprint.content_hash = previous.ret.fingerprint.content_hash
          <=> ret.supermajority_extraction.text = previous.ret.supermajority_extraction.text)
  /\ pc = "done" /\ Returned(ret) =>
       ret.fingerprint.content_hash = ret.supermajority_extraction.hash

\* two runs with the same non-empty reconstructed text that differ in URL,
\* metadata, number of survivors and agreement score
C10_Witness ==
  /\ BothReturned
  /\ ret.supermajority_extraction.text # <<>>
  /\ ret.supermajority_extraction.text = previous.ret.supermajority_extraction.text
  /\ previous.url # url
  /\ Triple(previous.metadata) # Triple(metadata)
  /\ Len(previous.processed) # Len(processed)
  /\ previous.ret.fingerprint.agreement_score # ret.fingerprint.agreement_score

\* the unordered pairs of survivors
SurvivorPairs == {p \in (1..Len(processed)) \X (1..Len(processed)) : p[1] < p[2]}

RECURSIVE SumOfRatios(_)
\* the sum of the ratios of the given pairs of survivors, not rounded
SumOfRatios(pairs) ==
  IF pairs = {} THEN FloatOf(0, 1)
  ELSE LET p == CHOOSE q \in pairs : TRUE
       IN  CHOOSE sum \in {ExactSum(r, rest) :
                              r \in {ratio(processed[p[1]].text, processed[p[2]].text)},
                              rest \in {SumOfRatios(pairs \ {p})}} : TRUE

RECURSIVE TimesCarry(_, _, _)
TimesCarry(f, n, i) == IF i > Digits THEN 0 ELSE (f[i] * n + TimesCarry(f, n, i + 1)) \div Base

\* n * f, not rounded
Times(f, n) == [i \in 1..Digits |-> (f[i] * n + TimesCarry(f, n, i + 1)) % Base]

\* what the roundings of at most six additions and one division of floats
\* below 8 can add up to: 2^-48
MeanTolerance == Unit(LowBit(1) - 48)

\* x and y differ by no more than the roundings allow
EqualUpToRounding(x, y) ==
  /\ \E most \in {ExactSum(y, MeanTolerance)} : ~FloatGt(x, most)
  /\ \E most \in {ExactSum(x, MeanTolerance)} : ~FloatGt(y, most)

\* the label of a score by the strict steps 0.95, 0.90, 0.80: one label up
\* for every step the score lies above
StepLabel(score) ==
  <<"low", "medium", "high", "very_high">>[
    1 + Cardinality({step \in {80, 90, 95} : FloatGt(score, FloatOf(step, 100))})]

\* of a returned record: the agreement score is the arithmetic mean of the
\* pairwise ratios over all unordered pairs of survivors (the score times
\* the number of pairs is the sum of the ratios, up to the rounding of float
\* arithmetic, and the score of a single pair is its ratio), and 0 with
\* fewer than two survivors; the confidence label is the strict step
\* function of the score, and low with fewer than two survivors; the kept
\* sentences are those of the vote at the survivor-count threshold, whatever
\* the label is.
MeanAndStrictSteps ==
  /\ \E sum \in {SumOfRatios(SurvivorPairs)} :
       \E product \in {Times(ret.fingerprint.agreement_score, Cardinality(SurvivorPairs))} :
         EqualUpToRounding(product, sum)
  /\ Len(processed) = 2 =>
       ret.fingerprint.agreement_score = ratio(processed[1].text, processed[2].text)
  /\ Len(processed) < 2 =>
       /\ ret.fingerprint.agreement_score = FloatOf(0, 1)
       /\ ret.fingerprint.confidence = "low"
  /\ ret.fingerprint.confidence = StepLabel(ret.fingerprint.agreement_score)
  /\ ret.supermajority_extraction.text
       = extract(processed, IF Len(processed) >= 3 THEN 3 ELSE 2).reconstructed

\* C11: every run reports an agreement score that is the arithmetic mean of
\* the pairwise ratios over all unordered pairs of survivors and is 0 when
\* fewer than two survive, and a confidence label that is the strict step
\* function of the score (> 0.95 very_high, > 0.90 high, > 0.80 medium,
\* else low; low with fewer than two survivors), the label never changing
\* which sentences the vote keeps.
C11_MeanAndStrictSteps ==
  pc = "done" => Returned(ret) /\ MeanAndStrictSteps

\* C11, of the runs that return a record only: their score is the mean and
\* their label its strict step function.
C11_MeanAndStrictStepsOfRecords ==
  pc = "done" /\ Returned(ret) => MeanAndStrictSteps

\* two survivors whose one ratio, and so the score, is 0.95 exactly: the
\* label is high
C11_Witness ==
  /\ pc = "done"
  /\ Returned(ret)
  /\ Len(processed) = 2
  /\ ret.fingerprint.agreement_score = FloatOf(95, 100)
  /\ ret.fingerprint.confidence = "high"

\* the characters base_quirks is to leave in no output
Typographic ==
  {"LDQUO", "RDQUO", "LSQUO", "RSQUO", "EMDASH", "ENDASH", "NBSP", "ZWSP"}

\* the ASCII character of a typographic quotation mark or dash
AsciiOf(c) ==
  CASE c \in {"LDQUO", "RDQUO"} -> "\""
    [] c \in {"LSQUO", "RSQUO"} -> "'"
    [] c \in {"EMDASH", "ENDASH"} -> "-"
    [] OTHER -> c

\* the characters of t that are neither whitespace nor zero-width, in order
Visible(t) == SelectSeq(t, LAMBDA c : c \notin Whitespace \cup {"ZWSP"})

\* C12: the output of base_quirks contains no typographic quotation mark,
\* no em- or en-dash, no non-breaking and no zero-width space; its
\* non-whitespace characters are those of the input, in order, each
\* typographic quotation mark replaced by its ASCII quote, each dash by a
\* hyphen, and every other character as it was.
C12_TypographyMadeAscii ==
  pc = "done" =>
    /\ \A i \in 1..Len(ret) : ret[i] \notin Typographic
    /\ Visible(ret) = [i \in 1..Len(Visible(text_arg)) |-> AsciiOf(Visible(text_arg)[i])]

\* a call on a closing quotation mark, an en-dash and an accented letter
C12_Witness ==
  /\ pc = "done"
  /\ text_arg = <<"RSQUO", "ENDASH", "EACUTE">>
  /\ ret = <<"'", "-", "EACUTE">>

\* the call's text is content that the site layer vetoed
DiscardedBySiteRule ==
  /\ ~Unavailable(text_arg)
  /\ site_quirks(extractor_quirks(base_quirks(text_arg), extractor_arg), url) = None

\* C13: a source the site layer vetoed is distinguishable from a source
\* whose extractor returned an error marker: process_all_layers never gives
\* the two the same result.
C13_VetoDistinctFromError ==
  pc = "done" /\ DiscardedBySiteRule =>
    \A t \in LayerTexts, u \in LayerUrls :
      startswith(t, STR_ERROR) => process_all_layers(t, extractor_arg, u) # ret

C15_OneTrailingPeriod ==
  pc = "done" /\ Returned(ret) =>
    IF ret.high_confidence = <<>> THEN ret.reconstructed = <<>>
    ELSE /\ ret.reconstructed \in {join(<<".", " ">>, ret.high_confidence),
                                   join(<<".", " ">>, ret.high_confidence) \o <<".">>}
         /\ ret.reconstructed[Len(ret.reconstructed)] = "."
         /\ Len(ret.reconstructed) > 1 => ret.reconstructed[Len(ret.reconstructed) - 1] # "."

\* the segments of t: t is cut at every run of whitespace that follows
\* ".", "!" or "?", and the run is dropped
RECURSIVE SegmentsOf(_)
SegmentsOf(t) ==
  IF \E i \in 2..Len(t) : t[i] \in Whitespace /\ t[i - 1] \in {".", "!", "?"}
  THEN LET cut == CHOOSE i \in 2..Len(t) :
                    /\ t[i] \in Whitespace /\ t[i - 1] \in {".", "!", "?"}
                    /\ \A j \in 2..(i - 1) : ~(t[j] \in Whitespace /\ t[j - 1] \in {".", "!", "?"})
           next == IF \A j \in cut..Len(t) : t[j] \in Whitespace THEN Len(t) + 1
                   ELSE CHOOSE j \in cut..Len(t) :
                          t[j] \notin Whitespace /\ \A k \in cut..(j - 1) : t[k] \in Whitespace
       IN  <<SubSeq(t, 1, cut - 1)>> \o SegmentsOf(SubSeq(t, next, Len(t)))
  ELSE <<t>>

\* C16: extract_sentences returns, in text order, the trimmed segments of
\* trimmed length 20 or more, and no shorter one.
C16_SegmentsOfTwentyOrMore ==
  pc = "done" =>
    ret = SelectSeq([i \in 1..Len(SegmentsOf(text_arg)) |-> strip(SegmentsOf(text_arg)[i])],
                    LAMBDA s : Len(s) >= 20)

\* the canonical sentences source i casts votes for, in text order: none
\* when its text is empty or an error marker
SentencesOf(i) ==
  IF texts[i].text = <<>> \/ startswith(texts[i].text, STR_ERROR) THEN <<>>
  ELSE [k \in 1..Len(extract_sentences(texts[i].text)) |->
          join(<<" ">>, split(extract_sentences(texts[i].text)[k]))]

\* the sentences of every source of the call
SentencesOfSources == [i \in 1..Len(texts) |-> SentencesOf(i)]

RECURSIVE SentencesFrom(_, _)
\* the sentences of the sources from i on, source after source
SentencesFrom(sentences, i) ==
  IF i > Len(sentences) THEN <<>> ELSE sentences[i] \o SentencesFrom(sentences, i + 1)

\* seq without the repetitions of an earlier element
FirstAppearances(seq) ==
  SelectSeq([i \in 1..Len(seq) |-> IF \E j \in 1..(i - 1) : seq[j] = seq[i] THEN None ELSE seq[i]],
            LAMBDA s : s # None)

\* the number of sources that cast a vote for the sentence
VotesFor(sentences, sentence) ==
  Cardinality({i \in 1..Len(sentences) : sentence \in Range(sentences[i])})

\* the sentences of seq that reach the threshold, in order
Reaching(sentences, seq) ==
  SelectSeq(seq, LAMBDA s : VotesFor(sentences, s) >= min_extractors)

\* the kept sentences, given what each source casts votes for: the
\* reference source's, then the others'
KeptInOrder(sentences) ==
  IF sentences = <<>> THEN <<>>
  ELSE Reaching(sentences, FirstAppearances(sentences[1]))
       \o Reaching(sentences,
                   SelectSeq(FirstAppearances(SentencesFrom(sentences, 1)),
                             LAMBDA s : s \notin Range(sentences[1])))

\* C17: the kept sentences are first those the reference source (the first
\* key) produced, in the order of their first appearance in it, and then,
\* once each, the sentences the reference source never produced, in the
\* order in which they were first tallied; each of them reaches the
\* threshold, and the reconstruction joins them in that order.
C17_ReferenceOrderFirst ==
  pc = "done" /\ Returned(ret) =>
    /\ \E sentences \in {SentencesOfSources} : ret.high_confidence = KeptInOrder(sentences)
    /\ ret.reconstructed \in {join(<<".", " ">>, ret.high_confidence),
                              join(<<".", " ">>, ret.high_confidence) \o <<".">>}

\* a kept reference sentence followed by two sentences of other sources
C17_Witness ==
  /\ pc = "done"
  /\ Returned(ret)
  /\ Len(ret.high_confidence) = 3
  /\ ret.high_confidence[1] \in Range(SentencesOf(1))
  /\ ret.high_confidence[2] \notin Range(SentencesOf(1))
  /\ ret.high_confidence[3] \notin Range(SentencesOf(1))

\* the entries of by_vote_count, over all its vote counts
RecordedEntries == UNION {Range(ret.stats.by_vote_count[n]) : n \in DOMAIN ret.stats.by_vote_count}

\* C18: for any number of sources extract returns without raising, also
\* when a sentence is shared by more than 4 sources; by_vote_count then
\* records every tallied sentence under its vote count, whether or not the
\* reference source produced it and whether or not it reaches the
\* threshold, so that its entries total total_unique_sentences; and no
\* sentence below the threshold is kept.
C18_EveryTalliedSentenceRecorded ==
  pc = "done" /\ texts # <<>> =>
    /\ Returned(ret)
    /\ \A k \in 1..Len(ret.sentence_to_extractors) :
         \E n \in DOMAIN ret.stats.by_vote_count :
           /\ n = Cardinality(ret.sentence_to_extractors[k].extractors)
           /\ Preview(ret.sentence_to_extractors[k].sentence) \in Range(ret.stats.by_vote_count[n])
    /\ Cardinality(RecordedEntries) = ret.stats.total_unique_sentences
    /\ \A k \in 1..Len(ret.sentence_to_extractors) :
         Cardinality(ret.sentence_to_extractors[k].extractors) < min_extractors =>
           ret.sentence_to_extractors[k].sentence \notin Range(ret.high_confidence)

\* C19: every result of process_all_layers that is a non-empty text is a
\* fixed point of base_quirks, also when the extractor or the site layer
\* removed text from the middle of it.
C19_LayersResultNormalized ==
  pc = "done" /\ ret # None /\ ret # <<>> => base_quirks(ret) = ret

\* t is a sequence of pairwise distinct sentences, each longer than 20
\* characters and ending in ".", separated by single spaces
PlainSentences(t) ==
  /\ t = join(<<" ">>, SegmentsOf(t))
  /\ \A i \in 1..Len(SegmentsOf(t)) :
       /\ Len(SegmentsOf(t)[i]) > 20
       /\ SegmentsOf(t)[i][Len(SegmentsOf(t)[i])] = "."
       /\ SegmentsOf(t)[i] = join(<<" ">>, split(SegmentsOf(t)[i]))
       /\ \A j \in 1..Len(SegmentsOf(t)) : SegmentsOf(t)[i] = SegmentsOf(t)[j] => i = j

\* C20: when all sources carry the same text, a sequence of plain
\* sentences, and are at least as many as the threshold, extract returns
\* that text as the reconstruction, with sentences_kept equal to
\* total_unique_sentences.
C20_UnanimityRoundTrip ==
  pc = "done" /\ texts # <<>> /\ Len(texts) >= min_extractors
    /\ (\A i \in 1..Len(texts) : texts[i].text = texts[1].text)
    /\ PlainSentences(texts[1].text) =>
      /\ Returned(ret)
      /\ ret.reconstructed = texts[1].text
      /\ ret.stats.sentences_kept = ret.stats.total_unique_sentences

\* C21: two runs whose triples (canonical_url, publish_date, title) differ
\* in any component, a missing publish_date against a present string and
\* values that contain the delimiter included, give different article_ids.
C21_ArticleIdInjectiveInTriple ==
  BothReturned /\ Triple(previous.metadata) # Triple(metadata) =>
    ret.fingerprint.article_id # previous.ret.fingerprint.article_id

\* two runs, one without publish_date and one with a present date, whose
\* titles differ too and hold the delimiter in one of them
C21_Witness ==
  /\ BothReturned
  /\ previous.metadata.publish_date = None
  /\ metadata.publish_date = DATE_published
  /\ metadata.title = DATE_published \o <<"|">> \o TITLE_bill
  /\ previous.metadata.title = TITLE_bill
  /\ ret.fingerprint.article_id # previous.ret.fingerprint.article_id

====
